---- MODULE Spec2Model ----
(***************************************************************************)
(* MigrateRoute (mcrouter/lib/routes/MigrateRoute.h): a route handle that  *)
(* sends an operation to the "from" handle, the "to" handle or both,       *)
(* depending on where the time given by the TimeProvider lies in the       *)
(* migration schedule, and that merges the two replies of a dual dispatch. *)
(***************************************************************************)
EXTENDS Integers, Sequences, FiniteSets, TLC

\* ---------------------------------------------------------------- bounds
MaxTime == 4            \* the time provider yields 0..MaxTime
MaxStart == 2           \* start_time ranges over 1..MaxStart
MaxInterval == 1        \* largest configured interval
MaxNegInterval == 1     \* intervals go down to -MaxNegInterval
MaxAwful == 1           \* awfulness of a reply's result ranges over 0..MaxAwful

\* ------------------------------------------------------- program constants
kFromMask == 1
kToMask == 2
kDefaultInterval == 3600

\* ------------------------------------------------------------------ values
Dest == {"from", "to"}
Null == "null"

OpClass == {"delete", "other"}

Bodies == {"x", "y"}
Reply == [awful : 0..MaxAwful, body : Bodies]
NoReply == [awful |-> 0 - 1, body |-> "none"]

StartTimes == 1..MaxStart
Intervals == (0 - MaxNegInterval)..MaxInterval

\* A folly::dynamic configuration, reduced to what the constructor inspects.
Field == [kind : {"absent", "nonint"}, val : {0}]
IntField(S) == [kind : {"int"}, val : S]
Json ==
    [isObject : BOOLEAN,
     start_time : Field \cup IntField(StartTimes),
     interval : Field \cup IntField(Intervals),
     from : BOOLEAN,
     to : BOOLEAN]
NoJson ==
    [isObject |-> FALSE,
     start_time |-> [kind |-> "none", val |-> 0],
     interval |-> [kind |-> "none", val |-> 0],
     from |-> FALSE,
     to |-> FALSE]

VARIABLES
    ctor,           \* "none" | "ok" | "configError": outcome of construction
    json,           \* the configuration the constructor was given
    from_, to_,     \* the two route handles
    startTimeSec_,
    intervalSec_,
    created,        \* handles made by RouteHandleFactory::create, in order
    clock,          \* what tp_(req) returns now
    pc,             \* position of the route call: idle | single | forEach | done
    op,             \* operation class of the route call
    curr,           \* the time route sampled
    mask,           \* the mask route computed
    task,           \* per destination: none | pending | running | ok | failed
    calls,          \* per destination: route() invocations made by this call
    destReply,      \* per destination: the reply it returned
    reply,          \* folly::Optional<Reply> of the dual-dispatch branch
    e,              \* forEach holds an exception of a sub-task
    order,          \* destinations in the order their replies were delivered
    result,         \* what route gave its caller
    could,          \* the last couldRouteTo call: its op, time and result
    pc2,            \* a second, concurrent route call: idle | inflight
    op2,            \* its operation class
    curr2,          \* the time it sampled
    mask2,          \* the mask it computed
    task2,          \* per destination: none | running | over
    calls2          \* per destination: route() invocations made by it

vars ==
    <<ctor, json, from_, to_, startTimeSec_, intervalSec_, created, clock,
      pc, op, curr, mask, task, calls, destReply, reply, e, order, result,
      could, pc2, op2, curr2, mask2, task2, calls2>>

routerVars == <<ctor, json, from_, to_, startTimeSec_, intervalSec_, created>>
callVars ==
    <<pc, op, curr, mask, task, calls, destReply, reply, e, order, result>>
call2Vars == <<pc2, op2, curr2, mask2, task2, calls2>>

\* ------------------------------------------------------------ the reply type
\* McReply::worseThan compares the awfulness of the two results only.
worseThan(a, b) == a.awful > b.awful

\* ------------------------------------------------------------- routeMask
\* A slip in the first comparison: the start time itself still counts as
\* before the migration.
routeMaskDeleteLikeLate(now, start, interval) ==
    IF now <= start
    THEN kFromMask
    ELSE IF now < start + 2 * interval
         THEN kFromMask + kToMask
         ELSE kToMask

\* The middle region without the from bit: no dual dispatch.
routeMaskDeleteLikeNoDual(now, start, interval) ==
    IF now < start
    THEN kFromMask
    ELSE IF now < start + 2 * interval
         THEN kToMask
         ELSE kToMask

\* The last return with the wrong mask: back to from_ after the window.
routeMaskDeleteLikeBack(now, start, interval) ==
    IF now < start
    THEN kFromMask
    ELSE IF now < start + 2 * interval
         THEN kFromMask + kToMask
         ELSE kFromMask

routeMaskDeleteLike(now, start, interval) ==
    IF now < start
    THEN kFromMask
    ELSE IF now < start + 2 * interval
         THEN kFromMask + kToMask
         ELSE kToMask

\* A slip in the comparison: the switch-over time itself still goes to from_.
routeMaskOtherLate(now, start, interval) ==
    IF now <= start + interval THEN kFromMask ELSE kToMask

routeMaskOther(now, start, interval) ==
    IF now < start + interval THEN kFromMask ELSE kToMask

routeMask(opc, now, start, interval) ==
    IF opc = "delete"
    THEN routeMaskDeleteLike(now, start, interval)
    ELSE routeMaskOther(now, start, interval)

\* mask & kFromMask, mask & kToMask
HasFrom(m) == (m % 2) = 1
HasTo(m) == ((m \div 2) % 2) = 1

\* ---------------------------------------------------------- construction
\* The constructor without its check of the interval's type.
checkConfigNoIntervalCheck(j) ==
    IF ~j.isObject
    THEN "MigrateRoute should be object"
    ELSE IF ~(j.start_time.kind # "absent" /\ j.start_time.kind = "int")
    THEN "MigrateRoute has no/invalid start_time"
    ELSE IF ~j.from
    THEN "MigrateRoute has no 'from' route"
    ELSE IF ~j.to
    THEN "MigrateRoute has no 'to' route"
    ELSE "ok"

\* The checkLogic calls of the configuration constructor, in order: the
\* message of the first one that fails, or "ok".
checkConfig(j) ==
    IF ~j.isObject
    THEN "MigrateRoute should be object"
    ELSE IF ~(j.start_time.kind # "absent" /\ j.start_time.kind = "int")
    THEN "MigrateRoute has no/invalid start_time"
    ELSE IF ~j.from
    THEN "MigrateRoute has no 'from' route"
    ELSE IF ~j.to
    THEN "MigrateRoute has no 'to' route"
    ELSE IF j.interval.kind # "absent" /\ j.interval.kind # "int"
    THEN "MigrateRoute interval is not integer"
    ELSE "ok"

\* intervalSec_ after the constructor body: the initializer's 3600 unless
\* the configuration has an interval.
configInterval(j) ==
    IF j.interval.kind # "absent" THEN j.interval.val ELSE kDefaultInterval

\* RouteHandleFactory::create on a sub-configuration gives its handle.
factoryCreate(name) == name

Init ==
    /\ ctor = "none"
    /\ json = NoJson
    /\ from_ = Null
    /\ to_ = Null
    /\ startTimeSec_ = 0
    /\ intervalSec_ = 0
    /\ created = <<>>
    /\ clock = 0
    /\ pc = "idle"
    /\ op = "other"
    /\ curr = 0
    /\ mask = 0
    /\ task = [d \in Dest |-> "none"]
    /\ calls = [d \in Dest |-> 0]
    /\ destReply = [d \in Dest |-> NoReply]
    /\ reply = NoReply
    /\ e = FALSE
    /\ order = <<>>
    /\ result = [kind |-> "none", reply |-> NoReply]
    /\ could = [op |-> "none", curr |-> 0, ret |-> <<>>]
    /\ pc2 = "idle"
    /\ op2 = "other"
    /\ curr2 = 0
    /\ mask2 = 0
    /\ task2 = [d \in Dest |-> "none"]
    /\ calls2 = [d \in Dest |-> 0]

\* MigrateRoute(factory, json, tp)
ConstructFromConfig(j) ==
    /\ ctor = "none"
    /\ json' = j
    /\ IF checkConfig(j) # "ok"
       THEN /\ ctor' = "configError"
            /\ UNCHANGED <<from_, to_, startTimeSec_, intervalSec_, created>>
       ELSE /\ ctor' = "ok"
            /\ startTimeSec_' = j.start_time.val
            /\ intervalSec_' = configInterval(j)
            /\ from_' = factoryCreate("from")
            /\ to_' = factoryCreate("to")
            /\ created' = created \o <<factoryCreate("from"), factoryCreate("to")>>
    /\ UNCHANGED <<clock, could>>
    /\ UNCHANGED callVars
    /\ UNCHANGED call2Vars

\* MigrateRoute(fh, th, start_time_sec, interval_sec, tp), both handles given
ConstructDirect(fh, th, start, interval) ==
    /\ ctor = "none"
    /\ fh # Null /\ th # Null
    /\ ctor' = "ok"
    /\ from_' = fh
    /\ to_' = th
    /\ startTimeSec_' = start
    /\ intervalSec_' = interval
    /\ UNCHANGED <<json, created, clock, could>>
    /\ UNCHANGED callVars
    /\ UNCHANGED call2Vars

\* The time provider's value moves on.
Tick ==
    /\ clock < MaxTime
    /\ clock' = clock + 1
    /\ UNCHANGED <<could>>
    /\ UNCHANGED routerVars
    /\ UNCHANGED callVars
    /\ UNCHANGED call2Vars

\* ------------------------------------------------------------ couldRouteTo
\* couldRouteTo testing the from bit twice.
couldRouteToRetSameBit(m) ==
    (IF HasFrom(m) THEN <<from_>> ELSE <<>>) \o (IF HasFrom(m) THEN <<to_>> ELSE <<>>)

\* couldRouteTo pushing to_ before from_.
couldRouteToRetToFirst(m) ==
    (IF HasTo(m) THEN <<to_>> ELSE <<>>) \o (IF HasFrom(m) THEN <<from_>> ELSE <<>>)

couldRouteToRet(m) ==
    (IF HasFrom(m) THEN <<from_>> ELSE <<>>) \o (IF HasTo(m) THEN <<to_>> ELSE <<>>)

CouldRouteTo(opc) ==
    /\ ctor = "ok"
    /\ could' = [op |-> opc, curr |-> clock,
                 ret |-> couldRouteToRet(
                     routeMask(opc, clock, startTimeSec_, intervalSec_))]
    /\ UNCHANGED <<clock>>
    /\ UNCHANGED routerVars
    /\ UNCHANGED callVars
    /\ UNCHANGED call2Vars

\* ------------------------------------------------------------------ route
\* The default branch handing only the from function to forEach.
switchTargetsFromOnly(m) ==
    IF m = kFromMask THEN {"from"}
    ELSE IF m = kToMask THEN {"to"}
    ELSE {"from"}

\* The two single cases of the switch calling the wrong handle.
switchTargetsSwapped(m) ==
    IF m = kFromMask THEN {"to"}
    ELSE IF m = kToMask THEN {"from"}
    ELSE {"from", "to"}

\* The destinations the switch on the mask calls: one directly, or both
\* through the two functions handed to fiber::forEach.
switchTargets(m) ==
    IF m = kFromMask THEN {"from"}
    ELSE IF m = kToMask THEN {"to"}
    ELSE {"from", "to"}

\* The callback with the comparison the wrong way round.
callbackKeepBetter(held, newReply) ==
    IF held = NoReply \/ worseThan(held, newReply) THEN newReply ELSE held

\* The callback without the comparison: the last reply delivered wins.
callbackKeepLast(held, newReply) == newReply

\* The callback that never replaces the reply it holds.
callbackKeepFirst(held, newReply) ==
    IF held = NoReply THEN newReply ELSE held

\* The callback replacing the held reply unless the held one is worse.
callbackReplaceOnTie(held, newReply) ==
    IF held = NoReply \/ ~worseThan(held, newReply) THEN newReply ELSE held

\* The forEach callback: keep the new reply if there is none yet or the new
\* one is worse than the one held.
callback(held, newReply) ==
    IF held = NoReply \/ worseThan(newReply, held) THEN newReply ELSE held

\* forEach giving up the wait as soon as one sub-task is over.
forEachOverAny(t) ==
    \E d \in Dest : t[d] \in {"ok", "failed"}

\* fiber::forEach returns to its caller when every sub-task is over, with a
\* reply or with an exception.
forEachOver(t) ==
    \A d \in Dest : t[d] \in {"none", "ok", "failed"}

\* fiber::forEach, once every sub-task is over, rethrows the exception of a
\* sub-task that threw.
forEachThrows(held) == held

\* route swallowing the sub-task's exception when a reply is there.
dualOutcomeSwallow(threw, held) ==
    IF held = NoReply
    THEN [kind |-> "failure", reply |-> NoReply]
    ELSE [kind |-> "reply", reply |-> held]

\* What the dual-dispatch branch hands back once forEach is over: forEach
\* rethrows a sub-task's exception and route has no handler for it; otherwise
\* reply.value(), which throws on an empty Optional.
dualOutcome(threw, held) ==
    IF threw \/ held = NoReply
    THEN [kind |-> "failure", reply |-> NoReply]
    ELSE [kind |-> "reply", reply |-> held]

\* route up to the first suspension: sample the time, compute the mask, and
\* either call the one destination or hand both functions to forEach.
RouteBegin(opc) ==
    /\ ctor = "ok"
    /\ pc = "idle"
    /\ op' = opc
    /\ curr' = clock
    /\ LET m == routeMask(opc, clock, startTimeSec_, intervalSec_) IN
         /\ mask' = m
         /\ IF m = kFromMask \/ m = kToMask
            THEN /\ pc' = "single"
                 /\ task' = [d \in Dest |->
                               IF d \in switchTargets(m) THEN "running" ELSE "none"]
                 /\ calls' = [d \in Dest |->
                               IF d \in switchTargets(m) THEN calls[d] + 1 ELSE calls[d]]
            ELSE /\ pc' = "forEach"
                 /\ task' = [d \in Dest |->
                               IF d \in switchTargets(m) THEN "pending" ELSE "none"]
                 /\ calls' = calls
    /\ UNCHANGED <<destReply, reply, e, order, result, clock, could>>
    /\ UNCHANGED routerVars
    /\ UNCHANGED call2Vars

\* The single destination returns: route returns its reply.
DestReturn(d, r) ==
    /\ pc = "single"
    /\ task[d] = "running"
    /\ task' = [task EXCEPT ![d] = "ok"]
    /\ destReply' = [destReply EXCEPT ![d] = r]
    /\ order' = Append(order, d)
    /\ result' = [kind |-> "reply", reply |-> r]
    /\ pc' = "done"
    /\ UNCHANGED <<op, curr, mask, calls, reply, e, clock, could>>
    /\ UNCHANGED routerVars
    /\ UNCHANGED call2Vars

\* The single destination throws: the exception leaves route.
DestThrow(d) ==
    /\ pc = "single"
    /\ task[d] = "running"
    /\ task' = [task EXCEPT ![d] = "failed"]
    /\ result' = [kind |-> "failure", reply |-> NoReply]
    /\ pc' = "done"
    /\ UNCHANGED <<op, curr, mask, calls, destReply, reply, e, order, clock, could>>
    /\ UNCHANGED routerVars
    /\ UNCHANGED call2Vars

\* A sub-task that looks at the time again when it starts and skips its
\* destination if the mask of that moment does not name it.
TaskRunResample(d) ==
    /\ pc = "forEach"
    /\ task[d] = "pending"
    /\ IF d \in switchTargets(routeMask(op, clock, startTimeSec_, intervalSec_))
       THEN /\ task' = [task EXCEPT ![d] = "running"]
            /\ calls' = [calls EXCEPT ![d] = @ + 1]
       ELSE /\ task' = [task EXCEPT ![d] = "none"]
            /\ calls' = calls
    /\ UNCHANGED <<pc, op, curr, mask, destReply, reply, e, order, result, clock, could>>
    /\ UNCHANGED routerVars
    /\ UNCHANGED call2Vars

\* A forEach sub-task starts: fs[id]() calls its destination's route.
TaskRun(d) ==
    /\ pc = "forEach"
    /\ task[d] = "pending"
    /\ task' = [task EXCEPT ![d] = "running"]
    /\ calls' = [calls EXCEPT ![d] = @ + 1]
    /\ UNCHANGED <<pc, op, curr, mask, destReply, reply, e, order, result, clock, could>>
    /\ UNCHANGED routerVars
    /\ UNCHANGED call2Vars

\* A sub-task's destination returns: forEach hands the reply to the callback.
TaskReturn(d, r) ==
    /\ pc = "forEach"
    /\ task[d] = "running"
    /\ task' = [task EXCEPT ![d] = "ok"]
    /\ destReply' = [destReply EXCEPT ![d] = r]
    /\ reply' = callback(reply, r)
    /\ order' = Append(order, d)
    /\ UNCHANGED <<pc, op, curr, mask, calls, e, result, clock, could>>
    /\ UNCHANGED routerVars
    /\ UNCHANGED call2Vars

\* A sub-task's destination throws: forEach keeps the exception.
TaskThrow(d) ==
    /\ pc = "forEach"
    /\ task[d] = "running"
    /\ task' = [task EXCEPT ![d] = "failed"]
    /\ e' = TRUE
    /\ UNCHANGED <<pc, op, curr, mask, calls, destReply, reply, order, result, clock, could>>
    /\ UNCHANGED routerVars
    /\ UNCHANGED call2Vars

\* route waiting, after forEach, until the Optional holds a reply.
ForEachEndWaitsForReply ==
    /\ pc = "forEach"
    /\ forEachOver(task)
    /\ reply # NoReply
    /\ result' = dualOutcome(forEachThrows(e), reply)
    /\ pc' = "done"
    /\ UNCHANGED <<op, curr, mask, task, calls, destReply, reply, e, order, clock, could>>
    /\ UNCHANGED routerVars
    /\ UNCHANGED call2Vars

\* Both sub-tasks are over: forEach returns or rethrows, route ends.
ForEachEnd ==
    /\ pc = "forEach"
    /\ forEachOver(task)
    /\ result' = dualOutcome(forEachThrows(e), reply)
    /\ pc' = "done"
    /\ UNCHANGED <<op, curr, mask, task, calls, destReply, reply, e, order, clock, could>>
    /\ UNCHANGED routerVars
    /\ UNCHANGED call2Vars

\* The caller has the outcome; the next route call starts afresh.
RouteEnd ==
    /\ pc = "done"
    /\ pc' = "idle"
    /\ mask' = 0
    /\ task' = [d \in Dest |-> "none"]
    /\ calls' = [d \in Dest |-> 0]
    /\ destReply' = [d \in Dest |-> NoReply]
    /\ reply' = NoReply
    /\ e' = FALSE
    /\ order' = <<>>
    /\ result' = [kind |-> "none", reply |-> NoReply]
    /\ UNCHANGED <<op, curr, clock, could>>
    /\ UNCHANGED routerVars
    /\ UNCHANGED call2Vars

\* ------------------------------------------- a second, concurrent route call
\* The same route, run for another request while the first call is under
\* way; of its destination calls only the start and the end are kept.

\* The second call writing its mask where the first call keeps its own, as
\* if the mask were a member of the route handle.
Route2BeginSharedMask(opc) ==
    /\ ctor = "ok"
    /\ pc2 = "idle"
    /\ pc2' = "inflight"
    /\ op2' = opc
    /\ curr2' = clock
    /\ LET m == routeMask(opc, clock, startTimeSec_, intervalSec_) IN
         /\ mask2' = m
         /\ mask' = m
         /\ task2' = [d \in Dest |-> IF d \in switchTargets(m) THEN "running" ELSE "none"]
         /\ calls2' = [d \in Dest |-> IF d \in switchTargets(m) THEN calls2[d] + 1 ELSE calls2[d]]
    /\ UNCHANGED <<pc, op, curr, task, calls, destReply, reply, e, order, result>>
    /\ UNCHANGED <<clock, could>>
    /\ UNCHANGED routerVars

\* route: sample the time, compute the mask, call the destination or hand the
\* two functions to forEach, which starts them.
Route2Begin(opc) ==
    /\ ctor = "ok"
    /\ pc2 = "idle"
    /\ pc2' = "inflight"
    /\ op2' = opc
    /\ curr2' = clock
    /\ LET m == routeMask(opc, clock, startTimeSec_, intervalSec_) IN
         /\ mask2' = m
         /\ task2' = [d \in Dest |-> IF d \in switchTargets(m) THEN "running" ELSE "none"]
         /\ calls2' = [d \in Dest |-> IF d \in switchTargets(m) THEN calls2[d] + 1 ELSE calls2[d]]
    /\ UNCHANGED <<clock, could>>
    /\ UNCHANGED routerVars
    /\ UNCHANGED callVars

\* A destination call of the second route call comes back.
Dest2Over(d) ==
    /\ pc2 = "inflight"
    /\ task2[d] = "running"
    /\ task2' = [task2 EXCEPT ![d] = "over"]
    /\ UNCHANGED <<pc2, op2, curr2, mask2, calls2>>
    /\ UNCHANGED <<clock, could>>
    /\ UNCHANGED routerVars
    /\ UNCHANGED callVars

\* The second route call returns to its caller.
Route2End ==
    /\ pc2 = "inflight"
    /\ \A d \in Dest : task2[d] \in {"none", "over"}
    /\ pc2' = "idle"
    /\ mask2' = 0
    /\ task2' = [d \in Dest |-> "none"]
    /\ calls2' = [d \in Dest |-> 0]
    /\ UNCHANGED <<op2, curr2>>
    /\ UNCHANGED <<clock, could>>
    /\ UNCHANGED routerVars
    /\ UNCHANGED callVars

Next ==
    \/ \E j \in Json : ConstructFromConfig(j)
    \/ \E s \in StartTimes, i \in Intervals : ConstructDirect("from", "to", s, i)
    \/ Tick
    \/ \E o \in OpClass : CouldRouteTo(o)
    \/ \E o \in OpClass : RouteBegin(o)
    \/ \E d \in Dest, r \in Reply : DestReturn(d, r)
    \/ \E d \in Dest : DestThrow(d)
    \/ \E d \in Dest : TaskRun(d)
    \/ \E d \in Dest, r \in Reply : TaskReturn(d, r)
    \/ \E d \in Dest : TaskThrow(d)
    \/ ForEachEnd
    \/ RouteEnd

Spec == Init /\ [][Next]_vars

\* The scheduling the liveness of route rests on: the fiber manager runs every
\* sub-task it was given and resumes route when forEach is over, and every
\* destination call that was started comes back, with a reply or a failure.
Fairness ==
    /\ \A d \in Dest : WF_vars(TaskRun(d))
    /\ \A d \in Dest : WF_vars((\E r \in Reply : TaskReturn(d, r)) \/ TaskThrow(d))
    /\ \A d \in Dest : WF_vars((\E r \in Reply : DestReturn(d, r)) \/ DestThrow(d))
    /\ WF_vars(ForEachEnd)

LiveSpec == Spec /\ Fairness

\* The route handle, built from two handles, with two route calls under way at
\* once; what the destinations reply plays no part in the routing, so the
\* replies are all the same one.
ConcReply == [awful |-> 0, body |-> "x"]

NextConc ==
    \/ \E s \in StartTimes, i \in Intervals : ConstructDirect("from", "to", s, i)
    \/ Tick
    \/ \E o \in OpClass : CouldRouteTo(o)
    \/ \E o \in OpClass : RouteBegin(o)
    \/ \E d \in Dest : DestReturn(d, ConcReply)
    \/ \E d \in Dest : DestThrow(d)
    \/ \E d \in Dest : TaskRun(d)
    \/ \E d \in Dest : TaskReturn(d, ConcReply)
    \/ \E d \in Dest : TaskThrow(d)
    \/ ForEachEnd
    \/ RouteEnd
    \/ \E o \in OpClass : Route2Begin(o)
    \/ \E d \in Dest : Dest2Over(d)
    \/ Route2End

ConcSpec == Init /\ [][NextConc]_vars

TypeOK ==
    /\ ctor \in {"none", "ok", "configError"}
    /\ clock \in 0..MaxTime
    /\ pc \in {"idle", "single", "forEach", "done"}
    /\ op \in OpClass
    /\ mask \in 0..3
    /\ task \in [Dest -> {"none", "pending", "running", "ok", "failed"}]
    /\ calls \in [Dest -> Nat]
    /\ reply \in Reply \cup {NoReply}
    /\ e \in BOOLEAN
    /\ result.kind \in {"none", "reply", "failure"}

\* ------------------------------------------------------- terms of the claims
\* The destinations the route call turned to, and those whose route ran.
Chosen == {d \in Dest : task[d] # "none"}
Dispatched == {d \in Dest : calls[d] > 0}

\* The destinations a mask names.
Selected(m) == {d \in Dest : (d = "from" /\ HasFrom(m)) \/ (d = "to" /\ HasTo(m))}

HandleOf(d) == IF d = "from" THEN from_ ELSE to_

DualDone == pc = "done" /\ mask = kFromMask + kToMask
BothOk == \A d \in Dest : task[d] = "ok"

Other(d) == IF d = "from" THEN "to" ELSE "from"

\* The reply the callback ends with when the replies at hand are delivered
\* first from destination d, then from the other one.
ReplyIfFirst(d) == callback(callback(NoReply, destReply[d]), destReply[Other(d)])

Tied(a, b) == ~worseThan(a, b) /\ ~worseThan(b, a)

\* ------------------------------------------------------------------ claims
\* C1: every destination the routing decision selects gets exactly one route
\* call per operation, every other destination gets none, and no destination
\* is called twice, whatever the order and outcome of the destination calls.
C1_ExactlyOnce ==
    /\ \A d \in Dest : calls[d] <= 1
    /\ \A d \in Dest \ Selected(mask) : calls[d] = 0
    /\ pc \in {"single", "done"} => \A d \in Selected(mask) : calls[d] = 1

C1_Witness ==
    /\ DualDone
    /\ task["from"] = "failed" /\ task["to"] = "ok"
    /\ result.kind = "failure"
    /\ calls = [d \in Dest |-> 1]

\* C2: with interval >= 0 a delete-like operation goes to from_ when
\* now < startTime, to both when startTime <= now < startTime + 2*interval,
\* and to to_ when now >= startTime + 2*interval.
C2_DeleteRegions ==
    (pc # "idle" /\ op = "delete" /\ intervalSec_ >= 0) =>
        /\ curr < startTimeSec_ => Chosen = {"from"}
        /\ (startTimeSec_ <= curr /\ curr < startTimeSec_ + 2 * intervalSec_)
               => Chosen = {"from", "to"}
        /\ curr >= startTimeSec_ + 2 * intervalSec_ => Chosen = {"to"}
        /\ pc = "done" => Dispatched = Chosen

C2_Witness ==
    /\ pc = "done" /\ op = "delete"
    /\ intervalSec_ > 0
    /\ curr = startTimeSec_
    /\ Dispatched = {"from", "to"}

C4_ReturnsWorst ==
    (DualDone /\ BothOk) =>
        /\ result.kind = "reply"
        /\ result.reply \in {destReply[d] : d \in Dest}
        /\ \A d \in Dest : ~worseThan(destReply[d], result.reply)

C4_Witness ==
    /\ DualDone /\ BothOk
    /\ order = <<"to", "from">>
    /\ worseThan(destReply["to"], destReply["from"])
    /\ result.reply = destReply["to"]

\* C5 as stated: on a dual dispatch the reply returned is the same whichever
\* sub-task completes first, for every pair of replies, tied pairs included.
C5_OrderIndependent ==
    (DualDone /\ BothOk) =>
        /\ result.reply = ReplyIfFirst("from")
        /\ result.reply = ReplyIfFirst("to")

\* C5 amended: when one reply is worse than the other, the reply returned is
\* the same whichever sub-task completes first; when the two are tied, either
\* order returns the reply delivered first, and the two are tied.
C5_OrderIndependentUnlessTied ==
    (DualDone /\ BothOk) =>
        /\ result.reply = ReplyIfFirst(order[1])
        /\ ~Tied(destReply["from"], destReply["to"])
               => result.reply = ReplyIfFirst(Other(order[1]))
        /\ Tied(destReply["from"], destReply["to"])
               => /\ result.reply = destReply[order[1]]
                  /\ ReplyIfFirst(Other(order[1])) = destReply[Other(order[1])]
                  /\ Tied(result.reply, ReplyIfFirst(Other(order[1])))

C5_Witness ==
    /\ DualDone /\ BothOk
    /\ order = <<"from", "to">>
    /\ worseThan(destReply["from"], destReply["to"])
    /\ destReply["from"].body # destReply["to"].body
    /\ result.reply = destReply["from"]

\* C6: what couldRouteTo returns is exactly what route calls at the same time
\* for the same operation class: from_, to_ or both.
C6_CouldMatchesRoute ==
    (could.op # "none" /\ pc # "idle" /\ could.op = op /\ could.curr = curr) =>
        /\ {could.ret[i] : i \in 1..Len(could.ret)} = {HandleOf(d) : d \in Chosen}
        /\ Len(could.ret) = Cardinality(Chosen)
        /\ pc = "done" =>
               {could.ret[i] : i \in 1..Len(could.ret)} = {HandleOf(d) : d \in Dispatched}

C6_Witness ==
    /\ could.op = "delete" /\ op = "delete"
    /\ could.curr = curr
    /\ pc = "done"
    /\ could.ret = <<from_, to_>>
    /\ Dispatched = {"from", "to"}

\* C7: on a dual dispatch, if a destination call fails, the route call ends in
\* failure; the reply of the other sub-task is not returned.
C7_FailurePropagates ==
    (DualDone /\ \E d \in Dest : task[d] = "failed") =>
        /\ result.kind = "failure"
        /\ result.reply = NoReply

C7_Witness ==
    /\ DualDone
    /\ task["to"] = "failed" /\ task["from"] = "ok"
    /\ reply = destReply["from"] /\ reply # NoReply
    /\ result.kind = "failure"

\* C8: construction from a configuration ends in a configuration error, with
\* no router and no handle created, when the configuration is not an object,
\* start_time is missing or not an integer, from or to is missing, or interval
\* is there but not an integer; with valid fields and no interval it succeeds
\* with interval 3600 and the configured start time.
ConfigInvalid(j) ==
    \/ ~j.isObject
    \/ j.start_time.kind \in {"absent", "nonint"}
    \/ ~j.from
    \/ ~j.to
    \/ j.interval.kind = "nonint"

C8_Construction ==
    (ctor # "none" /\ json # NoJson) =>
        /\ ConfigInvalid(json) =>
               /\ ctor = "configError"
               /\ created = <<>>
               /\ from_ = Null /\ to_ = Null
               /\ pc = "idle"
        /\ (~ConfigInvalid(json) /\ json.interval.kind = "absent") =>
               /\ ctor = "ok"
               /\ intervalSec_ = 3600
               /\ startTimeSec_ = json.start_time.val
               /\ created = <<from_, to_>>

C8_Witness ==
    /\ ctor = "configError"
    /\ json.isObject /\ json.start_time.kind = "int" /\ json.from /\ json.to
    /\ json.interval.kind = "nonint"
    /\ created = <<>>

\* C9 as stated: for every start time and every interval, an operation of
\* either class goes to from_ alone when now < startTime.
C9_BeforeStartIsFrom ==
    (pc # "idle" /\ curr < startTimeSec_) => Chosen = {"from"}

\* C10 as stated: the reply returned for a dual dispatch is the one of the two
\* that is not worse.
C10_ReturnsNotWorse ==
    (DualDone /\ BothOk) =>
        \A d \in Dest : ~worseThan(result.reply, destReply[d])

\* C10 amended: the reply returned for a dual dispatch is the one of the two
\* that is worse, whenever one of them is worse than the other.
C10_ReturnsWorse ==
    (DualDone /\ BothOk) =>
        \A d \in Dest :
            worseThan(destReply[d], destReply[Other(d)]) => result.reply = destReply[d]

C10_Witness ==
    /\ DualDone /\ BothOk
    /\ order = <<"from", "to">>
    /\ worseThan(destReply["to"], destReply["from"])
    /\ result.reply = destReply["to"]

\* The forEach callback applied to reply a, then to reply b.
reconcile(a, b) == callback(callback(NoReply, a), b)

\* C11: for two replies of which one is worse than the other, reconciling
\* them in one order gives the same reply as reconciling them in the other
\* order; the reply route returned is that one.
C11_CommutativeUnlessTied ==
    (DualDone /\ BothOk /\ ~Tied(destReply[order[1]], destReply[order[2]])) =>
        /\ reconcile(destReply[order[1]], destReply[order[2]])
               = reconcile(destReply[order[2]], destReply[order[1]])
        /\ result.reply = reconcile(destReply[order[2]], destReply[order[1]])

C11_Witness ==
    /\ DualDone /\ BothOk
    /\ order = <<"to", "from">>
    /\ worseThan(destReply["from"], destReply["to"])
    /\ result.reply = destReply["from"]
    /\ reconcile(destReply["from"], destReply["to"]) = destReply["from"]

\* C12: couldRouteTo calls no destination (a step that changes its result
\* leaves every destination's call count and sub-task as they were), and when
\* it returns two handles they are from_ then to_, never a handle twice.
CouldSet == {could.ret[i] : i \in 1..Len(could.ret)}

C12_CouldNoDispatch ==
    /\ [][could' # could =>
             (calls' = calls /\ task' = task /\ pc' = pc /\ result' = result)]_vars
    /\ [](could.op # "none" =>
             /\ Len(could.ret) \in {1, 2}
             /\ Cardinality(CouldSet) = Len(could.ret)
             /\ Len(could.ret) = 2 => could.ret = <<from_, to_>>)

C12_Witness ==
    /\ could.op = "delete"
    /\ could.ret = <<from_, to_>>
    /\ from_ # to_
    /\ pc = "idle"
    /\ calls = [d \in Dest |-> 0]

\* C15: on a dual dispatch with tied replies route returns the reply that was
\* delivered first; the tied reply delivered later does not replace it.
C15_TieKeepsFirst ==
    (DualDone /\ BothOk /\ Tied(destReply["from"], destReply["to"])) =>
        /\ result.kind = "reply"
        /\ result.reply = destReply[order[1]]

C15_Witness ==
    /\ DualDone /\ BothOk
    /\ order = <<"to", "from">>
    /\ Tied(destReply["from"], destReply["to"])
    /\ destReply["from"] # destReply["to"]
    /\ result.reply = destReply["to"]

\* C16: when the mask names one destination, route ends with exactly that
\* destination's outcome, its reply as it is or its failure, with no
\* reconciliation and without a call to the other destination.
TheOne(m) == IF m = kFromMask THEN "from" ELSE "to"

C16_SinglePassThrough ==
    (pc \in {"single", "done"} /\ mask \in {kFromMask, kToMask}) =>
        /\ calls[TheOne(mask)] = 1
        /\ calls[Other(TheOne(mask))] = 0
        /\ task[Other(TheOne(mask))] = "none"
        /\ reply = NoReply
        /\ pc = "done" =>
               /\ task[TheOne(mask)] \in {"ok", "failed"}
               /\ task[TheOne(mask)] = "ok" =>
                      result = [kind |-> "reply", reply |-> destReply[TheOne(mask)]]
               /\ task[TheOne(mask)] = "failed" =>
                      result = [kind |-> "failure", reply |-> NoReply]

C16_Witness ==
    /\ pc = "done" /\ mask = kToMask
    /\ task = [d \in Dest |-> IF d = "to" THEN "ok" ELSE "none"]
    /\ result = [kind |-> "reply", reply |-> destReply["to"]]
    /\ calls = [d \in Dest |-> IF d = "to" THEN 1 ELSE 0]

\* C18: with interval >= 0, at every time the destination of an operation
\* that is not delete-like is among the destinations of a delete-like
\* operation at the same time, for route and for couldRouteTo alike.
C18_DeleteCoversOther ==
    (ctor = "ok" /\ intervalSec_ >= 0) =>
        /\ Selected(routeMask("other", clock, startTimeSec_, intervalSec_))
               \subseteq Selected(routeMask("delete", clock, startTimeSec_, intervalSec_))
        /\ (pc # "idle" /\ op = "other" /\ could.op = "delete" /\ could.curr = curr)
               => {HandleOf(d) : d \in Chosen} \subseteq CouldSet
        /\ (pc # "idle" /\ op = "delete" /\ could.op = "other" /\ could.curr = curr)
               => CouldSet \subseteq {HandleOf(d) : d \in Chosen}

C18_Witness ==
    /\ pc = "done" /\ op = "other" /\ Dispatched = {"to"}
    /\ could.op = "delete" /\ could.curr = curr
    /\ could.ret = <<from_, to_>>
    /\ intervalSec_ > 0

\* C19: for one schedule and one operation class, of two calls the later of
\* which samples no earlier time, the later one goes to to_ if the earlier one
\* did and leaves from_ out if the earlier one did: the phases come in the
\* order FROM, BOTH, TO.
C19_OneWay ==
    (pc # "idle" /\ could.op = op) =>
        /\ could.curr <= curr =>
               /\ to_ \in CouldSet => "to" \in Chosen
               /\ from_ \notin CouldSet => "from" \notin Chosen
        /\ curr <= could.curr =>
               /\ "to" \in Chosen => to_ \in CouldSet
               /\ "from" \notin Chosen => from_ \notin CouldSet

C19_Witness ==
    /\ pc = "done" /\ op = "delete" /\ could.op = "delete"
    /\ could.curr < curr
    /\ could.ret = <<from_, to_>>
    /\ Dispatched = {"to"}

\* C20: a route call takes the time once, before it calls a destination, and
\* the destinations of that sample are the ones it calls: while the call is
\* under way its sample, mask and destinations do not change, whatever the
\* time provider would say by then.
C20_SampleFixed ==
    /\ [][(pc # "idle" /\ pc' # "idle") =>
             (curr' = curr /\ mask' = mask /\ op' = op /\ Chosen' = Chosen)]_vars
    /\ [](pc # "idle" =>
             /\ curr <= clock
             /\ mask = routeMask(op, curr, startTimeSec_, intervalSec_)
             /\ Chosen = Selected(mask)
             /\ Dispatched \subseteq Chosen
             /\ pc = "done" => Dispatched = Chosen)

C20_Witness ==
    /\ DualDone
    /\ curr < startTimeSec_ + 2 * intervalSec_
    /\ clock >= startTimeSec_ + 2 * intervalSec_
    /\ routeMask(op, clock, startTimeSec_, intervalSec_) = kToMask
    /\ Dispatched = {"from", "to"}

\* C13: on a dual dispatch route has not returned while a sub-task of the
\* call is still pending or running, and the caller gets one outcome per call:
\* there is an outcome exactly when route has returned, and it stays as it is
\* until the next call.
C13_ReturnsAfterBoth ==
    /\ [](DualDone => \A d \in Dest : task[d] \in {"ok", "failed"})
    /\ [](result.kind # "none" <=> pc = "done")
    /\ [][result.kind # "none" => (result' = result \/ pc' = "idle")]_vars

C13_Witness ==
    /\ DualDone /\ BothOk
    /\ result.kind = "reply"
    /\ order = <<"from", "to">>
    /\ destReply["from"] = destReply["to"]

\* C14: when the sub-tasks are scheduled fairly and every destination call
\* that was started comes back, every route call ends, with a reply or with a
\* failure.
C14_RouteEnds ==
    (pc \in {"single", "forEach"}) ~> (pc = "done" /\ result.kind \in {"reply", "failure"})

C14_Witness ==
    /\ DualDone
    /\ \A d \in Dest : task[d] = "failed"
    /\ result.kind = "failure"

\* C17: with route calls and couldRouteTo calls interleaved on one route
\* handle, the schedule and the two handles never change once the handle is
\* built, a step of one route call leaves the other call as it is, and every
\* call goes to the destinations its own operation class and sampled time
\* give, each of them called once, as if it ran alone.
Chosen2 == {d \in Dest : task2[d] # "none"}

AloneTargets(opc, now) == Selected(routeMask(opc, now, startTimeSec_, intervalSec_))

C17_NoInterference ==
    /\ [][ctor = "ok" =>
             /\ ctor' = ctor
             /\ startTimeSec_' = startTimeSec_ /\ intervalSec_' = intervalSec_
             /\ from_' = from_ /\ to_' = to_]_vars
    /\ [][(call2Vars' # call2Vars => callVars' = callVars)
           /\ (could' # could => (callVars' = callVars /\ call2Vars' = call2Vars))]_vars
    /\ [](pc # "idle" =>
             /\ mask = routeMask(op, curr, startTimeSec_, intervalSec_)
             /\ Chosen = AloneTargets(op, curr)
             /\ \A d \in Dest : calls[d] = (IF task[d] \in {"none", "pending"} THEN 0 ELSE 1))
    /\ [](pc2 # "idle" =>
             /\ mask2 = routeMask(op2, curr2, startTimeSec_, intervalSec_)
             /\ Chosen2 = AloneTargets(op2, curr2)
             /\ \A d \in Dest : calls2[d] = (IF d \in AloneTargets(op2, curr2) THEN 1 ELSE 0))
    /\ [](could.op # "none" => CouldSet = {HandleOf(d) : d \in AloneTargets(could.op, could.curr)})

C17_Witness ==
    /\ pc = "forEach" /\ op = "delete" /\ Chosen = {"from", "to"}
    /\ task["from"] = "running" /\ task["to"] = "pending"
    /\ pc2 = "inflight" /\ op2 = "other" /\ Chosen2 = {"to"}
    /\ curr2 > curr
    /\ could.op = "other" /\ could.curr < curr /\ could.ret = <<from_>>

====
